---- MODULE Spec2Model ----
(***************************************************************************)
(* Model of the forensic email pipeline of acre-forensics-fastapi:         *)
(*   forensics/atomizer.py      Atomizer.atomize, Atomizer._atomize_plain  *)
(*   forensics/attribution.py   AttributionEngine.attribute_atoms          *)
(*   forensics/pipeline.py      ACREPipeline.process_message               *)
(*   forensics/remote_worker_api.py  RemoteWorkerClient._request           *)
(*   forensics/verification.py  VerificationEngine                         *)
(*   forensics/api.py           PipelineMonitor, /ws/monitor               *)
(*   forensics/routers/container.py  the container-control endpoints       *)
(*   forensics/routers/commands.py   the exec endpoints                    *)
(*                                                                         *)
(* Strings are sequences of one-character strings; a style attribute is a  *)
(* sequence of declarations; a JSON object is the sequence of its          *)
(* key/value pairs in key order; sha256 is an injective constructor.       *)
(***************************************************************************)
EXTENDS Integers, Sequences, FiniteSets, TLC

VARIABLES
    \* ---- Atomizer / AttributionEngine exercised on drawn inputs ----
    segmenter,      \* which sentence segmenter is installed behind nltk.sent_tokenize
    inp,            \* the (message_id, html_content, plain_content, sender_email) under test
    calls,          \* the atomize calls made so far on the Atomizer instance, in order
    first,          \* result of the first atomize(inp) call
    out,            \* result of the latest atomize(inp) call
    attributed,     \* result of attribute_atoms on the latest atomize(inp) result
    \* ---- process_message invocations and the system of record ----
    db_messages,    \* message ids that have a canonical message record
    db_transcripts, \* per message id, the transcript batches the collaborator accepted
    db_analysis,    \* per message id, the analysis summaries the collaborator accepted
    pc,             \* per task, the position inside process_message
    cur,            \* per task, the message id of the payload
    atoms,          \* per task, the local atom list
    ret,            \* per task, how the latest invocation ended
    trace,          \* per task, the steps the latest invocation executed, with their outcome
    sent,           \* per task, the transcript batch the latest invocation sent
    runs,           \* per message id, how often Atomize / Attribute / Classify ran and
                    \* how often create_message was answered 401/403
    existed,        \* per task, whether the record existed when the invocation was called
    invocations,    \* number of process_message invocations started
    \* ---- the live monitor ----
    monitor,        \* the PipelineMonitor instance: its stats and active_connections
    ws              \* the websocket clients: what each received, and the broadcast under way

atomVars == <<segmenter, inp, calls, first, out, attributed>>
pipeVars == <<db_messages, db_transcripts, db_analysis, pc, cur, atoms, ret, trace, sent,
              runs, existed, invocations, monitor, ws>>
vars == <<atomVars, pipeVars>>

None == "None"

(***************************************************************************)
(* Bounds of the model.                                                    *)
(***************************************************************************)
MaxCalls == 3        \* atomize calls per Atomizer instance in SpecAtomizer
MaxInvocations == 3  \* process_message invocations in Spec
MaxConcurrent == 2   \* process_message invocations in SpecConcurrent

(***************************************************************************)
(* Character-level string helpers (str.strip, str.lower, str.count, ...).  *)
(***************************************************************************)
IsSpace(c) == c \in {" ", "\n"}

RECURSIVE LStrip(_)
LStrip(s) == IF s # <<>> /\ IsSpace(Head(s)) THEN LStrip(Tail(s)) ELSE s

RECURSIVE RStrip(_)
RStrip(s) ==
    IF s # <<>> /\ IsSpace(s[Len(s)]) THEN RStrip(SubSeq(s, 1, Len(s) - 1)) ELSE s

Strip(s) == RStrip(LStrip(s))

LowerChar(c) ==
    CASE c = "A" -> "a"
      [] c = "B" -> "b"
      [] c = "C" -> "c"
      [] c = "D" -> "d"
      [] OTHER -> c

Lower(s) == IF s = <<>> THEN <<>> ELSE [i \in 1..Len(s) |-> LowerChar(s[i])]

RECURSIVE Count(_, _)
Count(s, c) ==
    IF s = <<>> THEN 0 ELSE (IF Head(s) = c THEN 1 ELSE 0) + Count(Tail(s), c)

\* str.lstrip("> "): drop leading characters that are in the given set
RECURSIVE LStripChars(_, _)
LStripChars(s, chars) ==
    IF s # <<>> /\ Head(s) \in chars THEN LStripChars(Tail(s), chars) ELSE s

Sha256(x) == <<"sha256", x>>

\* f"{message_id}_{sequence_index}"
IdString(message_id, i) == <<message_id, "_", i>>

(***************************************************************************)
(* The sentence segmenter behind nltk.sent_tokenize.  It is an external    *)
(* resource: "punkt" ends a sentence at a full stop and returns trimmed,   *)
(* non-blank sentences; "lines" is a segmenter that cuts at line breaks    *)
(* and returns every piece, blank ones included.                           *)
(***************************************************************************)
RECURSIVE PunktPieces(_, _)
PunktPieces(s, piece) ==
    IF s = <<>> THEN (IF piece = <<>> THEN <<>> ELSE <<piece>>)
    ELSE IF Head(s) = "." THEN <<Append(piece, ".")>> \o PunktPieces(Tail(s), <<>>)
    ELSE PunktPieces(Tail(s), Append(piece, Head(s)))

RECURSIVE LinePieces(_, _)
LinePieces(s, piece) ==
    IF s = <<>> THEN <<piece>>
    ELSE IF Head(s) = "\n" THEN <<piece>> \o LinePieces(Tail(s), <<>>)
    ELSE LinePieces(Tail(s), Append(piece, Head(s)))

NotBlank(s) == Strip(s) # <<>>

Segmenters == {"punkt", "lines"}

sent_tokenize(text) ==
    IF segmenter = "punkt"
    THEN LET ps == PunktPieces(text, <<>>)
             trimmed == IF ps = <<>> THEN <<>> ELSE [i \in 1..Len(ps) |-> Strip(ps[i])]
         IN SelectSeq(trimmed, NotBlank)
    ELSE IF text = <<>> THEN <<>> ELSE LinePieces(text, <<>>)

(***************************************************************************)
(* The parsed document (what BeautifulSoup(html_content, "lxml") returns): *)
(* a function from node ids to nodes; node 1 is the body.                  *)
(***************************************************************************)
TagNode(name, style, color, children) ==
    [type |-> "tag", name |-> name, style |-> style, color |-> color,
     children |-> children, text |-> <<>>]

TextNode(text) ==
    [type |-> "text", name |-> "", style |-> <<>>, color |-> None,
     children |-> <<>>, text |-> text]

Decl(prop, val) == [prop |-> prop, val |-> val]

\* the element kinds a document of the model is built from
ElemKinds ==
    { [name |-> "div",        style |-> <<>>, color |-> None],
      [name |-> "blockquote", style |-> <<>>, color |-> None],
      [name |-> "span",       style |-> <<Decl("color", "RED"), Decl("font-weight", "bold")>>,
                              color |-> None],
      [name |-> "b",          style |-> <<>>, color |-> None],
      [name |-> "font",       style |-> <<>>, color |-> "Blue"],
      [name |-> "span",       style |-> <<Decl("text-transform", "uppercase")>>, color |-> None],
      [name |-> "span",       style |-> <<Decl("background-color", "yellow")>>, color |-> None] }

OuterKinds == {k \in ElemKinds : k.name \in {"div", "blockquote", "font"} \/ Len(k.style) = 2}

Blank == <<" ", "\n">>
OneSentence(c) == <<" ", c, ".", "\n">>
TwoSentences(c) == <<c, ".", "\n", "\n", LET u == CHOOSE x \in {"A", "B", "C", "D"} : LowerChar(x) = c IN u, ".">>

Elem(k, children) == TagNode(k.name, k.style, k.color, children)

\* <body>t2 <e3>t4 <e5>t6</e5> t7</e3></body>
NestedDoc(k3, k5, t2, t4, t6, t7) ==
    [n \in 1..7 |->
        CASE n = 1 -> TagNode("body", <<>>, None, <<2, 3>>)
          [] n = 2 -> TextNode(t2)
          [] n = 3 -> Elem(k3, <<4, 5, 7>>)
          [] n = 4 -> TextNode(t4)
          [] n = 5 -> Elem(k5, <<6>>)
          [] n = 6 -> TextNode(t6)
          [] n = 7 -> TextNode(t7)]

\* <body>t2 <e3>t4</e3> <e5>t6</e5> t7</body>, node ids not in document order
SiblingDoc(k3, k5, t2, t4, t6, t7) ==
    [n \in 1..7 |->
        CASE n = 1 -> TagNode("body", <<>>, None, <<6, 3, 5, 2>>)
          [] n = 6 -> TextNode(t2)
          [] n = 3 -> Elem(k3, <<4>>)
          [] n = 4 -> TextNode(t4)
          [] n = 5 -> Elem(k5, <<7>>)
          [] n = 7 -> TextNode(t6)
          [] n = 2 -> TextNode(t7)]

Docs ==
    { NestedDoc(k3, k5, t2, t4, t6, t7) :
        k3 \in OuterKinds, k5 \in ElemKinds,
        t2 \in {OneSentence("a"), Blank},
        t4 \in {Blank, TwoSentences("b")},
        t6 \in {OneSentence("c"), TwoSentences("c")},
        t7 \in {Blank, OneSentence("d")} }
    \cup
    { SiblingDoc(k3, k5, t2, t4, t6, t7) :
        k3 \in OuterKinds, k5 \in ElemKinds,
        t2 \in {OneSentence("a"), Blank},
        t4 \in {Blank, TwoSentences("b")},
        t6 \in {OneSentence("c"), TwoSentences("c")},
        t7 \in {Blank, OneSentence("d")} }

\* BeautifulSoup("") : a document without nodes below the root
EmptyDoc == [n \in 1..1 |-> TagNode("body", <<>>, None, <<>>)]

(***************************************************************************)
(* Atomizer.atomize, HTML path: traverse and its closure state             *)
(* (atoms, sequence_index), threaded as acc.                               *)
(***************************************************************************)
\* str(...).lower() on the tokens of an attribute value
LowerTok(t) ==
    CASE t = "RED" -> "red"
      [] t = "Blue" -> "blue"
      [] OTHER -> t

\* the needles the style parser looks for that occur in a token
Needles(t) ==
    CASE t = "color" -> {"color"}
      [] t = "background-color" -> {"color"}
      [] t = "font-weight" -> {"font-weight"}
      [] t = "bold" -> {"bold"}
      [] t = "text-transform" -> {"text-transform"}
      [] t = "uppercase" -> {"uppercase"}
      [] OTHER -> {}

\* needle in style_attr
InStyle(needle, style_attr) ==
    \E i \in 1..Len(style_attr) :
        needle \in Needles(style_attr[i].prop) \cup Needles(style_attr[i].val)

\* re.search(r'color\s*:\s*([^;"]+)', style_attr): the leftmost place where the
\* characters "color" are followed by a colon, i.e. the first declaration whose
\* property name ends in "color"
ColorMatches(style_attr) ==
    {i \in 1..Len(style_attr) : style_attr[i].prop \in {"color", "background-color"}}

SetKey(d, k, v) == (k :> v) @@ d

\* lines 53-85: the style of a tag, from the inherited style
NodeStyle(node, current_style_stack) ==
    LET style_attr == IF node.style = <<>> THEN <<>>
                      ELSE [i \in 1..Len(node.style) |->
                               Decl(LowerTok(node.style[i].prop), LowerTok(node.style[i].val))]
        isB == node.name \in {"b", "strong"}
        s0 == current_style_stack
        s1 == IF style_attr # <<>> /\ InStyle("color", style_attr)
                  /\ ColorMatches(style_attr) # {}
              THEN LET i == CHOOSE j \in ColorMatches(style_attr) :
                                \A l \in ColorMatches(style_attr) : j <= l
                   IN SetKey(s0, "color", style_attr[i].val)
              ELSE s0
        s2 == IF style_attr # <<>> /\ (InStyle("font-weight", style_attr) \/ isB)
                  /\ (InStyle("bold", style_attr) \/ isB)
              THEN SetKey(s1, "font_weight", "bold")
              ELSE s1
        s3 == IF style_attr # <<>> /\ InStyle("text-transform", style_attr)
                  /\ InStyle("uppercase", style_attr)
              THEN SetKey(s2, "text_transform", "uppercase")
              ELSE s2
        s4 == IF isB THEN SetKey(s3, "font_weight", "bold") ELSE s3
        s5 == IF node.name = "font" /\ node.color # None
              THEN SetKey(s4, "color", LowerTok(node.color))
              ELSE s4
    IN s5

KeyOrder == <<"color", "font_weight", "text_transform">>

\* json.dumps(d, sort_keys=True): the key/value pairs in key order
JsonDumps(d) ==
    LET InD(k) == k \in DOMAIN d
        ks == SelectSeq(KeyOrder, InD)
    IN IF ks = <<>> THEN <<>> ELSE [i \in 1..Len(ks) |-> <<ks[i], d[ks[i]]>>]

\* json.loads of such a string
JsonLoads(s) ==
    [k \in {s[i][1] : i \in 1..Len(s)} |->
        LET i == CHOOSE j \in 1..Len(s) : s[j][1] = k IN s[i][2]]

\* {k: v for k, v in node_style.items() if v}
CleanStyle(node_style) ==
    [k \in {x \in DOMAIN node_style : node_style[x] # ""} |-> node_style[k]]

\* a counter kept on the Atomizer instance and never reset between calls
StartIndexKeptOnInstance == Len(calls)

\* a counter shared by the invocations of the pipeline's Atomizer
StartIndexSharedByInvocations == runs["msg_001"].atomize + runs["msg_002"].atomize

\* line 44: sequence_index = 0
StartIndex == 0

\* lines 98-125: one atom per non-empty sentence
RECURSIVE EmitSentences(_, _, _, _, _)
EmitSentences(message_id, sentences, new_depth, node_style, acc) ==
    IF sentences = <<>> THEN acc
    ELSE LET sent_text == Strip(Head(sentences)) IN
         IF sent_text = <<>>
         THEN EmitSentences(message_id, Tail(sentences), new_depth, node_style, acc)
         ELSE LET atom ==
                    [id |-> Sha256(IdString(message_id, acc.sequence_index)),
                     messageId |-> message_id,
                     content |-> sent_text,
                     normalizedHash |-> Sha256(Lower(sent_text)),
                     sequenceIndex |-> acc.sequence_index,
                     quoteDepth |-> new_depth,
                     visualStyle |-> JsonDumps(CleanStyle(node_style)),
                     attributedTo |-> None,
                     attributionMethod |-> None]
              IN EmitSentences(message_id, Tail(sentences), new_depth, node_style,
                               [atoms |-> Append(acc.atoms, atom),
                                sequence_index |-> acc.sequence_index + 1])

\* a depth that is set, not incremented, at a blockquote
DepthOfNotCompounding(node, current_depth) ==
    IF node.name = "blockquote" THEN 1 ELSE current_depth

\* line 59
DepthOf(node, current_depth) ==
    IF node.name = "blockquote" THEN current_depth + 1 ELSE current_depth

\* children visited last to first
ChildOrderReversed(node) ==
    IF node.children = <<>> THEN <<>>
    ELSE [i \in 1..Len(node.children) |-> node.children[Len(node.children) + 1 - i]]

\* line 88: the order in which a tag's children are visited
ChildOrder(node) == node.children

RECURSIVE traverse(_, _, _, _, _, _)
RECURSIVE TraverseChildren(_, _, _, _, _, _)
traverse(doc, message_id, n, current_depth, current_style_stack, acc) ==
    LET node == doc[n] IN
    IF node.type = "tag"
    THEN TraverseChildren(doc, message_id, ChildOrder(node),
                          DepthOf(node, current_depth),
                          NodeStyle(node, current_style_stack), acc)
    ELSE LET text == Strip(node.text) IN
         IF text = <<>> THEN acc
         ELSE EmitSentences(message_id, sent_tokenize(text), current_depth,
                            current_style_stack, acc)

TraverseChildren(doc, message_id, kids, new_depth, node_style, acc) ==
    IF kids = <<>> THEN acc
    ELSE TraverseChildren(doc, message_id, Tail(kids), new_depth, node_style,
                          traverse(doc, message_id, Head(kids), new_depth, node_style, acc))

EmptyStyle == [k \in {} |-> ""]

(***************************************************************************)
(* Atomizer._atomize_plain                                                 *)
(***************************************************************************)
RECURSIVE PlainLoop(_, _, _, _, _)
PlainLoop(message_id, sentences, i, sender_email, acc) ==
    IF i > Len(sentences) THEN acc
    ELSE LET stripped == Strip(sentences[i]) IN
         IF stripped = <<>>
         THEN PlainLoop(message_id, sentences, i + 1, sender_email, acc)
         ELSE LET quoted == Head(stripped) = ">"
                  depth == IF quoted THEN Count(stripped, ">") ELSE 0
                  sent_text == IF quoted THEN Strip(LStripChars(stripped, {">", " "}))
                               ELSE stripped
                  atom == [id |-> Sha256(IdString(message_id, i - 1)),
                           messageId |-> message_id,
                           content |-> sent_text,
                           normalizedHash |-> Sha256(Lower(sent_text)),
                           sequenceIndex |-> i - 1,
                           quoteDepth |-> depth,
                           visualStyle |-> <<>>,
                           attributedTo |-> IF depth = 0 THEN sender_email ELSE None]
              IN PlainLoop(message_id, sentences, i + 1, sender_email, Append(acc, atom))

atomize_plain(message_id, text, sender_email) ==
    PlainLoop(message_id, sent_tokenize(text), 1, sender_email, <<>>)

\* Atomizer.atomize
atomize(message_id, has_html, doc, plain_content, sender_email) ==
    IF ~has_html /\ plain_content # <<>>
    THEN atomize_plain(message_id, plain_content, sender_email)
    ELSE traverse(doc, message_id, 1, 0, EmptyStyle,
                  [atoms |-> <<>>, sequence_index |-> StartIndex]).atoms

(***************************************************************************)
(* AttributionEngine.attribute_atoms                                       *)
(***************************************************************************)
\* "red" in visual_style["color"]
HasRed(color) == color \in {"red", "darkred"}

\* the uppercase check left out
IsAggressiveStyleWithoutUppercase(visual_style) ==
    /\ DOMAIN visual_style # {}
    /\ \/ "color" \in DOMAIN visual_style /\ HasRed(visual_style["color"])
       \/ "font_weight" \in DOMAIN visual_style /\ visual_style["font_weight"] = "bold"

\* lines 35-46
IsAggressiveStyle(visual_style) ==
    /\ DOMAIN visual_style # {}
    /\ \/ "color" \in DOMAIN visual_style /\ HasRed(visual_style["color"])
       \/ "font_weight" \in DOMAIN visual_style /\ visual_style["font_weight"] = "bold"
       \/ "text_transform" \in DOMAIN visual_style
            /\ visual_style["text_transform"] = "uppercase"

\* lines 20-58: the loop body, one atom
AttributeOne(atom, sender_email) ==
    LET quote_depth == IF "quoteDepth" \in DOMAIN atom THEN atom.quoteDepth ELSE 0
        visual_style == JsonLoads(IF "visualStyle" \in DOMAIN atom THEN atom.visualStyle
                                  ELSE <<>>)
    IN IF quote_depth = 0
       THEN [k \in DOMAIN atom \cup {"attributedTo", "attributionMethod", "isAlteredQuote"} |->
                CASE k = "attributedTo" -> sender_email
                  [] k = "attributionMethod" -> "HEADER_DEPTH_0"
                  [] k = "isAlteredQuote" -> FALSE
                  [] OTHER -> atom[k]]
       ELSE IF IsAggressiveStyle(visual_style)
       THEN [k \in DOMAIN atom \cup {"attributedTo", "attributionMethod"} |->
                CASE k = "attributedTo" -> sender_email
                  [] k = "attributionMethod" -> "STYLE_INFERENCE_INTERJECTION"
                  [] OTHER -> atom[k]]
       ELSE [k \in DOMAIN atom \cup {"attributedTo", "attributionMethod"} |->
                CASE k = "attributedTo" -> "Quoted_Party"
                  [] k = "attributionMethod" -> "QUOTE_DEPTH"
                  [] OTHER -> atom[k]]

attribute_atoms(as, sender_email) ==
    IF as = <<>> THEN <<>> ELSE [i \in 1..Len(as) |-> AttributeOne(as[i], sender_email)]

(***************************************************************************)
(* Inputs of the Atomizer specification.                                   *)
(***************************************************************************)
MsgIds == {"msg_001", "msg_002"}
Sender == "mark@roofer.com"

PlainTexts ==
    { <<"a", ".", " ", "b", ".">>,
      <<">", "a", ".", " ", "b", ".">>,
      <<"a", ".", "\n", "\n", "b", ".">>,
      <<">", " ", ">", "a", ">", "b", ".", "\n", "c", ".">>,
      <<"a", " ", " ", "b", ".">>,
      <<" ", "\n">> }

Inputs ==
    { [message_id |-> "msg_001", has_html |-> TRUE, doc |-> d,
       plain |-> <<"a", ".", " ", "b", ".">>, sender |-> Sender] : d \in Docs }
    \cup
    { [message_id |-> "msg_002", has_html |-> TRUE, doc |-> d,
       plain |-> <<"a", ".", " ", "b", ".">>, sender |-> Sender] :
        d \in {x \in Docs : \A n \in DOMAIN x : x[n].type = "text" => Len(x[n].text) > 2} }
    \cup
    { [message_id |-> m, has_html |-> FALSE, doc |-> EmptyDoc, plain |-> t, sender |-> e] :
        m \in MsgIds, t \in PlainTexts \cup {<<>>}, e \in {Sender, None} }

\* an input other than the one under test, for the calls made in between
OtherInput ==
    [message_id |-> "msg_other", has_html |-> TRUE,
     doc |-> SiblingDoc(CHOOSE k \in ElemKinds : k.name = "blockquote",
                        CHOOSE k \in ElemKinds : k.name = "b",
                        OneSentence("a"), OneSentence("b"), OneSentence("c"), Blank),
     plain |-> <<>>, sender |-> Sender]

Unset == [set |-> FALSE, val |-> <<>>]
Res(v) == [set |-> TRUE, val |-> v]

Tasks == {"t1", "t2"}

AtomInit ==
    /\ segmenter \in Segmenters
    /\ inp \in Inputs
    /\ calls = <<>>
    /\ first = Unset
    /\ out = Unset
    /\ attributed = Unset

\* atomizer.atomize(message_id, html, plain, sender) on the input under test
AtomizeCall ==
    /\ Len(calls) < MaxCalls
    /\ LET r == atomize(inp.message_id, inp.has_html, inp.doc, inp.plain, inp.sender) IN
       /\ out' = Res(r)
       /\ first' = IF first.set THEN first ELSE Res(r)
    /\ calls' = Append(calls, "inp")
    /\ attributed' = Unset
    /\ UNCHANGED <<segmenter, inp, pipeVars>>

\* another atomize call on the same Atomizer instance, in between
AtomizeOtherCall ==
    /\ Len(calls) < MaxCalls
    /\ atomize(OtherInput.message_id, OtherInput.has_html, OtherInput.doc,
               OtherInput.plain, OtherInput.sender) # <<>>
    /\ calls' = Append(calls, "other")
    /\ UNCHANGED <<segmenter, inp, first, out, attributed, pipeVars>>

\* attributor.attribute_atoms(atoms, sender) on the latest result
AttributeCall ==
    /\ out.set
    /\ ~attributed.set
    /\ attributed' = Res(attribute_atoms(out.val, inp.sender))
    /\ UNCHANGED <<segmenter, inp, calls, first, out, pipeVars>>

(***************************************************************************)
(* api.py, PipelineMonitor.  A broadcast message is a record with a type;  *)
(* the label of decision_made is the list of tags process_message puts in  *)
(* it.  recent_logs is left out of the stats.                              *)
(***************************************************************************)
Clients == {"c1", "c2"}

\* lines 172-181
NewMonitor ==
    [stats |-> [queued |-> 0, in_process |-> 0, completed |-> 0, threats |-> 0],
     active_connections |-> <<>>]

NoSend == [busy |-> FALSE, message |-> None, to |-> <<>>]

\* no client has connected, no broadcast is under way
NoSockets ==
    [phase |-> [c \in Clients |-> "new"],
     received |-> [c \in Clients |-> <<>>],
     seen |-> [c \in Clients |-> 0],
     closed |-> {},
     history |-> <<>>,
     sending |-> NoSend]

ProcessMessageStart == [type |-> "step_start", step |-> "Process Message"]
AtomizationStart == [type |-> "step_start", step |-> "Atomization"]
ArtifactFound == [type |-> "artifact_found", step |-> None]
DecisionMade ==
    [type |-> "decision_made", step |-> None, label |-> [kind |-> "list", val |-> <<"tag">>]]
PipelineComplete == [type |-> "step_complete", step |-> "Pipeline"]
IngestStart == [type |-> "ingest_start", step |-> None, count |-> 1]

\* a dict, as opposed to a list
IsDict(v) == v.kind = "dict"

\* lines 204-223: the stats after a message; an exception inside the try block
\* (label.get on a list) is printed and leaves the stats as they are
update_stats(stats, message) ==
    IF message.type = "ingest_start"
    THEN [stats EXCEPT !.queued = @ + message.count]
    ELSE IF message.type = "step_start"
    THEN [stats EXCEPT !.in_process = 1]
    ELSE IF message.type = "step_complete" /\ message.step = "Pipeline"
    THEN [stats EXCEPT !.in_process = 0, !.completed = @ + 1]
    ELSE IF message.type = "decision_made"
    THEN IF IsDict(message.label)
         THEN IF "intent" \in DOMAIN message.label.val
                 /\ message.label.val.intent = "Phishing"
              THEN [stats EXCEPT !.threats = @ + 1]
              ELSE stats
         ELSE stats
    ELSE stats

\* pipeline.py lines 86-89 and api.py 203-237 with no client connected
emit(mon, message) == [mon EXCEPT !.stats = update_stats(@, message)]

\* the stats a freshly constructed monitor would report
StatsAtStartup(stats) == NewMonitor.stats

\* line 190: json.loads(json.dumps(self.stats, default=str)); the counters are
\* JSON numbers and come back as they went in
safe_stats(stats) == [k \in DOMAIN stats |-> stats[k]]

\* lines 198-201
disconnect(mon, websocket) ==
    [mon EXCEPT !.active_connections = SelectSeq(@, LAMBDA c : c # websocket)]

PipeIdle ==
    /\ db_messages = {}
    /\ db_transcripts = [m \in MsgIds |-> <<>>]
    /\ db_analysis = [m \in MsgIds |-> <<>>]
    /\ pc = [p \in Tasks |-> "idle"]
    /\ cur = [p \in Tasks |-> None]
    /\ atoms = [p \in Tasks |-> <<>>]
    /\ ret = [p \in Tasks |-> None]
    /\ trace = [p \in Tasks |-> <<>>]
    /\ sent = [p \in Tasks |-> <<>>]
    /\ runs = [m \in MsgIds |-> [atomize |-> 0, attribute |-> 0, classify |-> 0, denied |-> 0,
                               succeeded |-> 0]]
    /\ existed = [p \in Tasks |-> FALSE]
    /\ invocations = 0
    /\ monitor = NewMonitor
    /\ ws = NoSockets

InitAtomizer == AtomInit /\ PipeIdle

NextAtomizer == AtomizeCall \/ AtomizeOtherCall \/ AttributeCall

SpecAtomizer == InitAtomizer /\ [][NextAtomizer]_vars

(***************************************************************************)
(* RemoteWorkerClient._request and the collaborators behind it.            *)
(***************************************************************************)
\* every answer returned to the caller, error statuses included
RequestSwallowsErrors(kind) ==
    CASE kind = "ok" -> [raised |-> FALSE, body |-> "json"]
      [] OTHER -> [raised |-> FALSE, body |-> "{}"]

\* what the caller of _request gets: "ok" is a 2xx answer with a JSON body,
\* "denied" a 401 or 403 (lines 122-125: logged, {} returned), "exists" and
\* "failed" any other error status (raise_for_status) or a RequestException
\* such as a timeout
Request(kind) ==
    CASE kind = "ok" -> [raised |-> FALSE, body |-> "json"]
      [] kind = "denied" -> [raised |-> FALSE, body |-> "{}"]
      [] OTHER -> [raised |-> TRUE, body |-> None]

\* the persistence collaborator's answers to create_message: it creates the
\* record atomically, answers an existing record with an error status ("exists"),
\* and may reject the caller, fail, or create the record and lose the answer
CreateAnswers(m) ==
    IF m \in db_messages
    THEN { [kind |-> "exists", stored |-> FALSE], [kind |-> "failed", stored |-> FALSE],
           [kind |-> "denied", stored |-> FALSE] }
    ELSE { [kind |-> "ok", stored |-> TRUE], [kind |-> "failed", stored |-> FALSE],
           [kind |-> "failed", stored |-> TRUE], [kind |-> "denied", stored |-> FALSE] }

\* its answers to batch_create_transcripts and store_analysis
WriteAnswers ==
    { [kind |-> "ok", stored |-> TRUE], [kind |-> "failed", stored |-> FALSE],
      [kind |-> "denied", stored |-> FALSE] }

\* the classification collaborator's answers to classifyBatch
ClassifierAnswers == {"labels", "failed", "denied", "notdict"}

\* ClassifierAgent.classify_batch: run_agent returns _post(...).get("result")
classify_batch(answer, classifier_input) ==
    CASE answer = "labels" ->
            [raised |-> FALSE, type |-> "dict",
             value |-> IF classifier_input = <<>> THEN <<>>
                       ELSE <<[id |-> classifier_input[1].id, tags |-> <<"Legal">>]>>]
      [] answer = "denied" -> [raised |-> FALSE, type |-> "None", value |-> <<>>]
      [] answer = "notdict" -> [raised |-> FALSE, type |-> "list", value |-> <<>>]
      [] OTHER -> [raised |-> TRUE, type |-> "None", value |-> <<>>]

\* classification_results.get(atom["id"], [])
DictGet(d, id) ==
    IF \E i \in 1..Len(d) : d[i].id = id
    THEN d[CHOOSE i \in 1..Len(d) : d[i].id = id].tags
    ELSE <<>>

\* a classification step that keeps only the atoms it labelled
ClassifiedKeepingLabelled(as, res) ==
    IF res.raised THEN [atoms |-> as, failed |-> TRUE]
    ELSE IF res.type = "dict"
    THEN [atoms |-> LET Labelled(a) == DictGet(res.value, a.id) # <<>>
                        kept == SelectSeq(as, Labelled)
                    IN IF kept = <<>> THEN <<>>
                       ELSE [i \in 1..Len(kept) |->
                                SetKey(kept[i], "labels", DictGet(res.value, kept[i].id))],
          failed |-> FALSE]
    ELSE [atoms |-> as, failed |-> as # <<>>]

\* lines 268-286: the atoms after the classification step, and whether it failed
Classified(as, res) ==
    IF res.raised THEN [atoms |-> as, failed |-> TRUE]
    ELSE IF res.type = "dict"
    THEN [atoms |-> IF as = <<>> THEN <<>>
                    ELSE [i \in 1..Len(as) |-> SetKey(as[i], "labels", DictGet(res.value, as[i].id))],
          failed |-> FALSE]
    ELSE [atoms |-> as, failed |-> as # <<>>]

\* no try/except around the classification: its failure leaves process_message
AfterClassifyPropagating(failed) == IF failed THEN "raised" ELSE "save"

\* lines 285-286: a failed classification is logged and the pass goes on
AfterClassify(failed) == "save"

\* lines 289-304
TranscriptsPayload(attributed_atoms) ==
    IF attributed_atoms = <<>> THEN <<>>
    ELSE [i \in 1..Len(attributed_atoms) |->
            LET atom == attributed_atoms[i] IN
            [id |-> atom.id,
             messageId |-> atom.messageId,
             content |-> atom.content,
             normalizedHash |-> atom.normalizedHash,
             sequenceIndex |-> atom.sequenceIndex,
             quoteDepth |-> atom.quoteDepth,
             visualStyle |-> atom.visualStyle,
             attributedTo |-> atom.attributedTo,
             attributionMethod |-> atom.attributionMethod,
             tags |-> IF "labels" \in DOMAIN atom THEN atom.labels ELSE <<>>]]

\* a summary that only lists the authors
SummarizeAuthorsOnce(as) ==
    [auth \in {as[i].attributedTo : i \in 1..Len(as)} |-> 1]

\* _summarize_attribution
summarize_attribution(as) ==
    [auth \in {as[i].attributedTo : i \in 1..Len(as)} |->
        Cardinality({i \in 1..Len(as) : as[i].attributedTo = auth})]

(***************************************************************************)
(* ACREPipeline.process_message.  The payload of a message is its body as  *)
(* it stands after the optional Gmail fetch of lines 177-221.              *)
(***************************************************************************)
Payload(m) ==
    IF m = "msg_001"
    THEN [has_html |-> TRUE,
          doc |-> NestedDoc(CHOOSE k \in ElemKinds : k.name = "blockquote",
                            CHOOSE k \in ElemKinds : Len(k.style) = 2,
                            OneSentence("a"), OneSentence("b"), OneSentence("c"),
                            OneSentence("d")),
          plain |-> <<>>, from |-> Sender]
    ELSE [has_html |-> FALSE, doc |-> EmptyDoc,
          plain |-> <<">", "a", ".", " ", "b", ".">>, from |-> Sender]

Step(name, outcome) == [step |-> name, outcome |-> outcome]

\* lines 162-241: the invocation starts and builds db_message
Start(p, m) ==
    /\ pc[p] = "idle"
    /\ invocations < MaxInvocations
    /\ invocations' = invocations + 1
    /\ pc' = [pc EXCEPT ![p] = "create"]
    /\ cur' = [cur EXCEPT ![p] = m]
    /\ atoms' = [atoms EXCEPT ![p] = <<>>]
    /\ ret' = [ret EXCEPT ![p] = None]
    /\ trace' = [trace EXCEPT ![p] = <<>>]
    /\ sent' = [sent EXCEPT ![p] = <<>>]
    /\ existed' = [existed EXCEPT ![p] = m \in db_messages]
    /\ monitor' = emit(monitor, ProcessMessageStart)
    /\ UNCHANGED <<db_messages, db_transcripts, db_analysis, runs, atomVars, ws>>

\* lines 243-252: the idempotency gate
CreateMessage(p) ==
    /\ pc[p] = "create"
    /\ \E a \in CreateAnswers(cur[p]) :
          /\ db_messages' = IF a.stored THEN db_messages \cup {cur[p]} ELSE db_messages
          /\ trace' = [trace EXCEPT ![p] = Append(@, Step("create_message", a.kind))]
          /\ runs' = IF a.kind = "denied" THEN [runs EXCEPT ![cur[p]].denied = @ + 1] ELSE runs
          /\ IF Request(a.kind).raised
             THEN /\ pc' = [pc EXCEPT ![p] = "idle"]
                  /\ ret' = [ret EXCEPT ![p] = "skipped"]
             ELSE /\ pc' = [pc EXCEPT ![p] = "atomize"]
                  /\ UNCHANGED ret
    /\ UNCHANGED <<db_transcripts, db_analysis, cur, atoms, sent, existed,
                   invocations, monitor, atomVars, ws>>

\* lines 254-260
Atomize(p) ==
    /\ pc[p] = "atomize"
    /\ runs' = [runs EXCEPT ![cur[p]].atomize = @ + 1]
    /\ atoms' = [atoms EXCEPT ![p] =
                    atomize(cur[p], Payload(cur[p]).has_html, Payload(cur[p]).doc,
                            Payload(cur[p]).plain, Payload(cur[p]).from)]
    /\ trace' = [trace EXCEPT ![p] = Append(@, Step("atomize", "ok"))]
    /\ pc' = [pc EXCEPT ![p] = "attribute"]
    /\ monitor' = emit(emit(monitor, AtomizationStart), ArtifactFound)
    /\ UNCHANGED <<db_messages, db_transcripts, db_analysis, cur, ret, sent, existed,
                   invocations, atomVars, ws>>

\* lines 262-264
Attribute(p) ==
    /\ pc[p] = "attribute"
    /\ runs' = [runs EXCEPT ![cur[p]].attribute = @ + 1]
    /\ atoms' = [atoms EXCEPT ![p] = attribute_atoms(@, Payload(cur[p]).from)]
    /\ trace' = [trace EXCEPT ![p] = Append(@, Step("attribute_atoms", "ok"))]
    /\ pc' = [pc EXCEPT ![p] = "classify"]
    /\ UNCHANGED <<db_messages, db_transcripts, db_analysis, cur, ret, sent, existed,
                   invocations, monitor, atomVars, ws>>

\* lines 266-286
Classify(p) ==
    /\ pc[p] = "classify"
    /\ runs' = [runs EXCEPT ![cur[p]].classify = @ + 1]
    /\ \E answer \in ClassifierAnswers :
          LET classifier_input ==
                  IF atoms[p] = <<>> THEN <<>>
                  ELSE [i \in 1..Len(atoms[p]) |->
                           [id |-> atoms[p][i].id, content |-> atoms[p][i].content]]
              c == Classified(atoms[p], classify_batch(answer, classifier_input))
          IN /\ atoms' = [atoms EXCEPT ![p] = c.atoms]
             /\ trace' = [trace EXCEPT ![p] =
                             Append(@, Step("classify_batch",
                                            IF c.failed THEN "failed" ELSE "ok"))]
             /\ monitor' = IF c.failed THEN monitor ELSE emit(monitor, DecisionMade)
             /\ IF AfterClassify(c.failed) = "save"
                THEN /\ pc' = [pc EXCEPT ![p] = "save"]
                     /\ UNCHANGED ret
                ELSE /\ pc' = [pc EXCEPT ![p] = "idle"]
                     /\ ret' = [ret EXCEPT ![p] = "raised"]
    /\ UNCHANGED <<db_messages, db_transcripts, db_analysis, cur, sent, existed,
                   invocations, atomVars, ws>>

\* lines 288-309
SaveTranscripts(p) ==
    /\ pc[p] = "save"
    /\ sent' = [sent EXCEPT ![p] = TranscriptsPayload(atoms[p])]
    /\ \E a \in WriteAnswers :
          /\ db_transcripts' = IF a.stored
                               THEN [db_transcripts EXCEPT ![cur[p]] =
                                        Append(@, TranscriptsPayload(atoms[p]))]
                               ELSE db_transcripts
          /\ trace' = [trace EXCEPT ![p] = Append(@, Step("batch_create_transcripts", a.kind))]
          /\ IF Request(a.kind).raised
             THEN /\ pc' = [pc EXCEPT ![p] = "idle"]
                  /\ ret' = [ret EXCEPT ![p] = "raised"]
             ELSE /\ pc' = [pc EXCEPT ![p] = "store"]
                  /\ UNCHANGED ret
    /\ UNCHANGED <<db_messages, db_analysis, cur, atoms, runs, existed, invocations,
                   monitor, atomVars, ws>>

\* lines 311-325
StoreAnalysis(p) ==
    /\ pc[p] = "store"
    /\ \E a \in WriteAnswers :
          /\ db_analysis' = IF a.stored
                            THEN [db_analysis EXCEPT ![cur[p]] =
                                     Append(@, summarize_attribution(atoms[p]))]
                            ELSE db_analysis
          /\ trace' = [trace EXCEPT ![p] = Append(@, Step("store_analysis", a.kind))]
          /\ ret' = [ret EXCEPT ![p] = IF Request(a.kind).raised THEN "raised" ELSE "success"]
          /\ monitor' = IF Request(a.kind).raised THEN monitor
                        ELSE emit(monitor, PipelineComplete)
          /\ runs' = IF Request(a.kind).raised THEN runs
                     ELSE [runs EXCEPT ![cur[p]].succeeded = @ + 1]
    /\ pc' = [pc EXCEPT ![p] = "idle"]
    /\ UNCHANGED <<db_messages, db_transcripts, cur, atoms, sent, existed,
                   invocations, atomVars, ws>>

\* run_pipeline, lines 385-423: one process_message call after the other
Main == "t1"

AtomIdle ==
    /\ segmenter = "punkt"
    /\ inp = [message_id |-> "msg_001", has_html |-> FALSE, doc |-> EmptyDoc,
              plain |-> <<>>, sender |-> Sender]
    /\ calls = <<>>
    /\ first = Unset
    /\ out = Unset
    /\ attributed = Unset

Init == AtomIdle /\ PipeIdle

Next ==
    \/ \E m \in MsgIds : Start(Main, m)
    \/ CreateMessage(Main)
    \/ Atomize(Main)
    \/ Attribute(Main)
    \/ Classify(Main)
    \/ SaveTranscripts(Main)
    \/ StoreAnalysis(Main)

Spec == Init /\ [][Next]_vars

\* process_message invocations of several tasks, interleaved at every step
NextConcurrent ==
    \E p \in Tasks :
        \/ \E m \in MsgIds : invocations < MaxConcurrent /\ Start(p, m)
        \/ CreateMessage(p)
        \/ Atomize(p)
        \/ Attribute(p)
        \/ Classify(p)
        \/ SaveTranscripts(p)
        \/ StoreAnalysis(p)

SpecConcurrent == Init /\ [][NextConcurrent]_vars

(***************************************************************************)
(* The document as a tree, independently of the traversal: parents, paths  *)
(* from the body, document order.                                          *)
(***************************************************************************)
IndexOf(seq, x) == CHOOSE i \in 1..Len(seq) : seq[i] = x

ParentOf(doc, n) ==
    CHOOSE p \in DOMAIN doc : \E i \in 1..Len(doc[p].children) : doc[p].children[i] = n

RECURSIVE PathOf(_, _)
PathOf(doc, n) ==
    IF n = 1 THEN <<>>
    ELSE LET p == ParentOf(doc, n) IN Append(PathOf(doc, p), IndexOf(doc[p].children, n))

\* the proper ancestors of n, the body first
RECURSIVE AncestorsOf(_, _)
AncestorsOf(doc, n) ==
    IF n = 1 THEN <<>>
    ELSE LET p == ParentOf(doc, n) IN Append(AncestorsOf(doc, p), p)

RECURSIVE LexLess(_, _)
LexLess(p, q) ==
    IF p = <<>> THEN q # <<>>
    ELSE IF q = <<>> THEN FALSE
    ELSE IF Head(p) # Head(q) THEN Head(p) < Head(q)
    ELSE LexLess(Tail(p), Tail(q))

\* the non-empty sentences of a text node, in segmenter order
SentencesOf(doc, n) ==
    LET text == Strip(doc[n].text)
        ss == IF text = <<>> THEN <<>> ELSE sent_tokenize(text)
        trimmed == IF ss = <<>> THEN <<>> ELSE [i \in 1..Len(ss) |-> Strip(ss[i])]
    IN SelectSeq(trimmed, NotBlank)

\* every (text node, sentence) of the document
SourcesOfNode(n, path, ss) ==
    { [node |-> n, k |-> k, content |-> ss[k], path |-> path] : k \in 1..Len(ss) }

SourcesOf(doc) ==
    UNION { SourcesOfNode(n, PathOf(doc, n), SentencesOf(doc, n)) :
            n \in {x \in DOMAIN doc : doc[x].type = "text"} }

\* x comes before y in the document
Precedes(x, y) ==
    \/ LexLess(x.path, y.path)
    \/ x.node = y.node /\ x.k < y.k

RECURSIVE InDocOrder(_)
InDocOrder(S) ==
    IF S = {} THEN <<>>
    ELSE LET m == CHOOSE x \in S : \A y \in S \ {x} : Precedes(x, y)
         IN <<m>> \o InDocOrder(S \ {m})

\* the sentences of the document under test, in document order
Expected == InDocOrder(SourcesOf(inp.doc))

HtmlResult == out.set /\ inp.has_html
PlainResult == out.set /\ ~inp.has_html /\ inp.plain # <<>>

(***************************************************************************)
(* C5: the sequenceIndex values of the atoms atomize returns, in list      *)
(* order, are exactly 0, 1, ..., N-1, on the HTML path and on the          *)
(* plain-text fallback, whatever the segmenter returns.                    *)
(***************************************************************************)
C5_SequenceIndexExact ==
    out.set => \A i \in 1..Len(out.val) : out.val[i].sequenceIndex = i - 1

InDocumentOrder(as, expected) ==
    /\ Len(as) = Len(expected)
    /\ \A i \in 1..Len(as) :
          /\ as[i].content = expected[i].content
          /\ as[i].sequenceIndex = i - 1
    /\ \A i, j \in 1..Len(as) :
          as[i].sequenceIndex < as[j].sequenceIndex => Precedes(expected[i], expected[j])

C7_DocumentOrder == HtmlResult => InDocumentOrder(out.val, Expected)

C7_Witness ==
    /\ HtmlResult
    /\ \E n, m \in DOMAIN inp.doc :
          /\ inp.doc[n].type = "text" /\ inp.doc[m].type = "text"
          /\ Strip(inp.doc[n].text) = <<>>
          /\ Len(SentencesOf(inp.doc, m)) = 2
          /\ LexLess(PathOf(inp.doc, n), PathOf(inp.doc, m))
    /\ Len(out.val) >= 4

(***************************************************************************)
(* C8: on the HTML path every atom's quoteDepth is the number of           *)
(* blockquote elements among the ancestors of its text node.               *)
(***************************************************************************)
QuoteAncestors(doc, n) ==
    LET anc == AncestorsOf(doc, n) IN
    Cardinality({i \in 1..Len(anc) : doc[anc[i]].name = "blockquote"})

DepthsAreQuoteAncestors(as, expected) ==
    /\ Len(as) = Len(expected)
    /\ \A i \in 1..Len(as) : as[i].quoteDepth = QuoteAncestors(inp.doc, expected[i].node)

C8_QuoteDepth == HtmlResult => DepthsAreQuoteAncestors(out.val, Expected)

\* a doubly nested container, and text after the inner container is closed
C8_Witness ==
    /\ HtmlResult
    /\ \E i, j \in 1..Len(out.val) :
          /\ i < j
          /\ out.val[i].quoteDepth = 2
          /\ out.val[j].quoteDepth = 1

(***************************************************************************)
(* C9: on the HTML path the style stamped on an atom is the style          *)
(* inherited along its ancestor chain, each element overriding only the    *)
(* properties it declares (an inline color declaration, bold by a b/strong *)
(* element or a bold font-weight declaration, text-transform: uppercase,   *)
(* the color attribute of a font element), for its own subtree only.       *)
(***************************************************************************)
\* what an element declares, by the style rule
Declared(node) ==
    LET colors == {i \in 1..Len(node.style) : LowerTok(node.style[i].prop) = "color"}
        c1 == IF colors = {} THEN EmptyStyle
              ELSE ("color" :> LowerTok(node.style[CHOOSE i \in colors :
                                                      \A j \in colors : i <= j].val))
        c2 == IF node.name = "font" /\ node.color # None
              THEN ("color" :> LowerTok(node.color)) ELSE c1
        b == IF \/ node.name \in {"b", "strong"}
                \/ \E i \in 1..Len(node.style) :
                      /\ LowerTok(node.style[i].prop) = "font-weight"
                      /\ LowerTok(node.style[i].val) = "bold"
             THEN ("font_weight" :> "bold") ELSE EmptyStyle
        u == IF \E i \in 1..Len(node.style) :
                      /\ LowerTok(node.style[i].prop) = "text-transform"
                      /\ LowerTok(node.style[i].val) = "uppercase"
             THEN ("text_transform" :> "uppercase") ELSE EmptyStyle
    IN c2 @@ b @@ u

RECURSIVE Inherited(_, _, _)
Inherited(doc, anc, style) ==
    IF anc = <<>> THEN style
    ELSE Inherited(doc, Tail(anc), Declared(doc[Head(anc)]) @@ style)

StylesAreInherited(as, expected) ==
    /\ Len(as) = Len(expected)
    /\ \A i \in 1..Len(as) :
          as[i].visualStyle =
              JsonDumps(CleanStyle(Inherited(inp.doc, AncestorsOf(inp.doc, expected[i].node),
                                             EmptyStyle)))

C9_StyleInherited == HtmlResult => StylesAreInherited(out.val, Expected)

(***************************************************************************)
(* C10: attribute_atoms assigns each atom by a fixed table of its own      *)
(* quoteDepth, visualStyle and the sender: depth 0 gives (sender,          *)
(* HEADER_DEPTH_0); depth > 0 with a red-family color, bold weight or      *)
(* uppercase transform gives (sender, STYLE_INFERENCE_INTERJECTION);       *)
(* depth > 0 otherwise gives (Quoted_Party, QUOTE_DEPTH).                  *)
(***************************************************************************)
Shows(visualStyle, key, Good(_)) ==
    \E i \in 1..Len(visualStyle) : visualStyle[i][1] = key /\ Good(visualStyle[i][2])

PolicyTable(depth, visualStyle, sender) ==
    LET IsBold(v) == v = "bold"
        IsUpper(v) == v = "uppercase"
    IN IF depth = 0 THEN <<sender, "HEADER_DEPTH_0">>
       ELSE IF \/ Shows(visualStyle, "color", HasRed)
               \/ Shows(visualStyle, "font_weight", IsBold)
               \/ Shows(visualStyle, "text_transform", IsUpper)
       THEN <<sender, "STYLE_INFERENCE_INTERJECTION">>
       ELSE <<"Quoted_Party", "QUOTE_DEPTH">>

Did(p, name) == \E i \in 1..Len(trace[p]) : trace[p][i].step = name
DidWith(p, name, outcome) == \E i \in 1..Len(trace[p]) : trace[p][i] = Step(name, outcome)
Times(p, name) == Cardinality({i \in 1..Len(trace[p]) : trace[p][i].step = name})
Ended(p) == pc[p] = "idle" /\ trace[p] # <<>>

ExpensiveSteps ==
    {"atomize", "attribute_atoms", "classify_batch", "batch_create_transcripts",
     "store_analysis"}

(***************************************************************************)
(* C1: if the message record already exists when process_message is        *)
(* called, the call returns 'skipped' and performs no atomize,             *)
(* attribute_atoms, classify_batch, batch_create_transcripts or            *)
(* store_analysis step.                                                    *)
(***************************************************************************)
C1_DuplicateIsSkipped ==
    \A p \in Tasks :
        existed[p] =>
            /\ \A name \in ExpensiveSteps : ~Did(p, name)
            /\ Ended(p) => ret[p] = "skipped"

(***************************************************************************)
(* C2: over any sequence of process_message calls, Atomize, Attribute and  *)
(* Classify each execute at most once per message_id.                      *)
(***************************************************************************)
C2_AtMostOncePerMessage ==
    \A m \in MsgIds :
        /\ runs[m].atomize <= 1
        /\ runs[m].attribute <= 1
        /\ runs[m].classify <= 1

(***************************************************************************)
(* C3: every invocation of process_message ends by returning a status in   *)
(* {success, skipped, error}; when batch_create_transcripts or             *)
(* store_analysis fails the status is 'error', and neither write is        *)
(* retried inside process_message.                                         *)
(***************************************************************************)
C3_EndsWithStatus ==
    \A p \in Tasks :
        /\ Times(p, "batch_create_transcripts") <= 1
        /\ Times(p, "store_analysis") <= 1
        /\ Ended(p) =>
              /\ ret[p] \in {"success", "skipped", "error"}
              /\ (\/ DidWith(p, "batch_create_transcripts", "failed")
                  \/ DidWith(p, "store_analysis", "failed")) => ret[p] = "error"

(***************************************************************************)
(* C4: when the classification call fails, process_message still goes on   *)
(* to persistence: the transcript batch it sends holds every atom Atomize  *)
(* produced, with its attribution and with empty tags, and the call        *)
(* returns 'success' if both persistence steps succeed.                    *)
(***************************************************************************)
\* the batch of a message whose atoms carry no labels
UnlabelledBatch(m) ==
    LET as == atomize(m, Payload(m).has_html, Payload(m).doc, Payload(m).plain,
                      Payload(m).from)
    IN IF as = <<>> THEN <<>>
       ELSE [i \in 1..Len(as) |->
               LET who == PolicyTable(as[i].quoteDepth, as[i].visualStyle, Payload(m).from)
               IN [id |-> as[i].id,
                   messageId |-> m,
                   content |-> as[i].content,
                   normalizedHash |-> as[i].normalizedHash,
                   sequenceIndex |-> as[i].sequenceIndex,
                   quoteDepth |-> as[i].quoteDepth,
                   visualStyle |-> as[i].visualStyle,
                   attributedTo |-> who[1],
                   attributionMethod |-> who[2],
                   tags |-> <<>>]]

C4_ClassificationFailureNonFatal ==
    \A p \in Tasks :
        DidWith(p, "classify_batch", "failed") =>
            /\ pc[p] \in {"save", "store", "idle"}
            /\ ret[p] = "raised" =>
                  \/ DidWith(p, "batch_create_transcripts", "failed")
                  \/ DidWith(p, "store_analysis", "failed")
            /\ Did(p, "batch_create_transcripts") => sent[p] = UnlabelledBatch(cur[p])
            /\ (/\ DidWith(p, "batch_create_transcripts", "ok")
                /\ DidWith(p, "store_analysis", "ok")) => ret[p] = "success"

C4_Witness ==
    \E p \in Tasks :
        /\ DidWith(p, "classify_batch", "failed")
        /\ ret[p] = "success"
        /\ Len(sent[p]) = 4
        /\ db_transcripts[cur[p]] = <<sent[p]>>
        /\ \E i \in 1..4 : sent[p][i].attributionMethod = "STYLE_INFERENCE_INTERJECTION"

(***************************************************************************)
(* AttributionEngine.attribute_atoms on batches that do not come from the  *)
(* Atomizer: an atom's visualStyle may be absent, "{}", a style object, or *)
(* a value json.loads rejects.                                             *)
(***************************************************************************)
\* values json.loads raises on: "" (JSONDecodeError), None (TypeError),
\* text that is not JSON (JSONDecodeError)
EmptyString == <<<<"">>>>
NullValue == <<<<"None">>>>
Garbage == <<<<"{color">>>>

\* json.loads(visual_style_str) returns
Parses(visual_style_str) ==
    \A i \in 1..Len(visual_style_str) : Len(visual_style_str[i]) = 2

\* atom.get("visualStyle", "{}")
GetVisualStyle(atom) == IF "visualStyle" \in DOMAIN atom THEN atom.visualStyle ELSE <<>>

\* lines 19-60: the loop mutates the caller's list in place; an exception of
\* json.loads (line 22) leaves the function at the atom it was raised for
RECURSIVE AttributeLoop(_, _, _)
AttributeLoop(as, i, sender_email) ==
    IF i > Len(as) THEN [raised |-> FALSE, atoms |-> as]
    ELSE IF ~Parses(GetVisualStyle(as[i])) THEN [raised |-> TRUE, atoms |-> as]
    ELSE AttributeLoop([as EXCEPT ![i] = AttributeOne(as[i], sender_email)], i + 1,
                       sender_email)

AtomStyles == {<<>>, <<<<"color", "red">>>>, EmptyString, NullValue, Garbage}

RawAtoms ==
    { [id |-> "x", quoteDepth |-> d, visualStyle |-> v] : d \in 0..1, v \in AtomStyles }
    \cup { [id |-> "x", quoteDepth |-> d] : d \in 0..1 }

Batches == { <<a>> : a \in RawAtoms } \cup { <<a, b>> : a \in RawAtoms, b \in RawAtoms }

AttributionInit ==
    /\ segmenter = "punkt"
    /\ inp \in { [atoms |-> b, sender |-> Sender] : b \in Batches }
    /\ calls = <<>>
    /\ first = Unset
    /\ out = Unset
    /\ attributed = Unset

\* attributor.attribute_atoms(atoms, sender) on the batch under test
AttributeBatchCall ==
    /\ ~attributed.set
    /\ attributed' = Res(AttributeLoop(inp.atoms, 1, inp.sender))
    /\ UNCHANGED <<segmenter, inp, calls, first, out, pipeVars>>

InitAttribution == AttributionInit /\ PipeIdle

NextAttribution == AttributeBatchCall

SpecAttribution == InitAttribution /\ [][NextAttribution]_vars

(***************************************************************************)
(* C11: attribute_atoms never fails a batch because of one atom: an atom   *)
(* whose visualStyle is missing, empty, null or not parseable is treated   *)
(* as having empty style, and every atom of the batch receives its         *)
(* attribution.                                                            *)
(***************************************************************************)
C11_BadStyleTolerated ==
    attributed.set =>
        /\ ~attributed.val.raised
        /\ \A i \in 1..Len(inp.atoms) :
              LET style == GetVisualStyle(inp.atoms[i])
                  got == attributed.val.atoms[i]
              IN <<got.attributedTo, got.attributionMethod>>
                     = PolicyTable(inp.atoms[i].quoteDepth,
                                   IF Parses(style) THEN style ELSE <<>>, inp.sender)

(***************************************************************************)
(* C12: within one pass an atom's attributedTo and attributionMethod are   *)
(* assigned only by attribute_atoms: atomize, on the HTML path and on the  *)
(* plain-text fallback, returns atoms without an author and without a      *)
(* method, and after attribute_atoms every atom's method is one of         *)
(* HEADER_DEPTH_0, STYLE_INFERENCE_INTERJECTION, QUOTE_DEPTH.              *)
(***************************************************************************)
Methods == {"HEADER_DEPTH_0", "STYLE_INFERENCE_INTERJECTION", "QUOTE_DEPTH"}

C12_AttributedOnlyByEngine ==
    /\ out.set =>
          \A i \in 1..Len(out.val) :
              /\ out.val[i].attributedTo = None
              /\ "attributionMethod" \in DOMAIN out.val[i]
                    => out.val[i].attributionMethod = None
    /\ attributed.set =>
          \A i \in 1..Len(attributed.val) : attributed.val[i].attributionMethod \in Methods

(***************************************************************************)
(* C13: in the plain-text fallback each atom's quoteDepth is the number of *)
(* leading '>' quote markers of its sentence ('>' characters later in the  *)
(* sentence do not count, 0 when there is none), and its content is the    *)
(* sentence with the leading markers removed.                              *)
(***************************************************************************)
\* the non-blank sentences of the plain text, trimmed, in segmenter order
PlainSentences(text) ==
    LET ss == sent_tokenize(text)
        trimmed == IF ss = <<>> THEN <<>> ELSE [i \in 1..Len(ss) |-> Strip(ss[i])]
    IN SelectSeq(trimmed, NotBlank)

\* the leading run of quote markers and blanks of a sentence
RECURSIVE MarkerPrefix(_)
MarkerPrefix(s) ==
    IF s # <<>> /\ Head(s) \in {">", " "} THEN <<Head(s)>> \o MarkerPrefix(Tail(s)) ELSE <<>>

LeadingMarkers(s) == Count(MarkerPrefix(s), ">")

WithoutMarkers(s) == Strip(SubSeq(s, Len(MarkerPrefix(s)) + 1, Len(s)))

DepthsAreLeadingMarkers(as, ss) ==
    /\ Len(as) = Len(ss)
    /\ \A i \in 1..Len(as) :
          /\ as[i].quoteDepth = LeadingMarkers(ss[i])
          /\ as[i].content = WithoutMarkers(ss[i])

C13_PlainQuoteDepth == PlainResult => DepthsAreLeadingMarkers(out.val, PlainSentences(inp.plain))

(***************************************************************************)
(* C14: in the plain-text fallback atomize returns every depth-0 atom      *)
(* attributed to the sender with attributionMethod HEADER_DEPTH_0, and     *)
(* every atom of depth > 0 with no author and no method.                   *)
(***************************************************************************)
C14_PlainAttribution ==
    PlainResult =>
        \A i \in 1..Len(out.val) :
            IF out.val[i].quoteDepth = 0
            THEN /\ out.val[i].attributedTo = inp.sender
                 /\ "attributionMethod" \in DOMAIN out.val[i]
                 /\ out.val[i].attributionMethod = "HEADER_DEPTH_0"
            ELSE /\ out.val[i].attributedTo = None
                 /\ "attributionMethod" \in DOMAIN out.val[i]
                       => out.val[i].attributionMethod = None

(***************************************************************************)
(* VerificationEngine (forensics/verification.py).  A text argument is     *)
(* either absent (Python None: Unset) or a string (Res of its characters). *)
(***************************************************************************)
\* str.split(): the maximal runs of non-whitespace characters
RECURSIVE SplitWords(_, _)
SplitWords(s, word) ==
    IF s = <<>> THEN (IF word = <<>> THEN <<>> ELSE <<word>>)
    ELSE IF IsSpace(Head(s))
         THEN (IF word = <<>> THEN <<>> ELSE <<word>>) \o SplitWords(Tail(s), <<>>)
         ELSE SplitWords(Tail(s), Append(word, Head(s)))

\* " ".join(words)
RECURSIVE JoinWords(_)
JoinWords(words) ==
    IF words = <<>> THEN <<>>
    ELSE IF Len(words) = 1 THEN Head(words)
    ELSE Head(words) \o <<" ">> \o JoinWords(Tail(words))

\* lower and trim only, whitespace runs kept
NormalizeWithoutCollapse(text) ==
    IF ~text.set \/ text.val = <<>> THEN <<>> ELSE Strip(Lower(text.val))

\* lines 10-14
normalize_content(text) ==
    IF ~text.set \/ text.val = <<>> THEN <<>> ELSE JoinWords(SplitWords(Lower(text.val), <<>>))

\* the hash of the raw text
ComputeHashRaw(text) == Sha256(IF text.set THEN text.val ELSE <<>>)

\* lines 16-18
compute_hash(text) == Sha256(normalize_content(text))

RECURSIVE CommonPrefix(_, _)
CommonPrefix(a, b) ==
    IF a # <<>> /\ b # <<>> /\ Head(a) = Head(b)
    THEN <<Head(a)>> \o CommonPrefix(Tail(a), Tail(b))
    ELSE <<>>

Reverse(a) == IF a = <<>> THEN <<>> ELSE [i \in 1..Len(a) |-> a[Len(a) + 1 - i]]

\* dmp.diff_main(text1, text2) on two strings: the equal head, what is deleted
\* from text1, what is inserted from text2, the equal tail; empty pieces left out
diff_main(text1, text2) ==
    LET pre == CommonPrefix(text1, text2)
        r1 == SubSeq(text1, Len(pre) + 1, Len(text1))
        r2 == SubSeq(text2, Len(pre) + 1, Len(text2))
        suf == Reverse(CommonPrefix(Reverse(r1), Reverse(r2)))
        all == << <<"equal", pre>>,
                  <<"delete", SubSeq(r1, 1, Len(r1) - Len(suf))>>,
                  <<"insert", SubSeq(r2, 1, Len(r2) - Len(suf))>>,
                  <<"equal", suf>> >>
        Kept(d) == d[2] # <<>>
    IN SelectSeq(all, Kept)

\* dmp.diff_prettyHtml(diffs): one <span>, <del> or <ins> element per diff
diff_prettyHtml(diffs) ==
    IF diffs = <<>> THEN <<>>
    ELSE [i \in 1..Len(diffs) |->
            <<CASE diffs[i][1] = "equal" -> "span"
                [] diffs[i][1] = "delete" -> "del"
                [] OTHER -> "ins",
              diffs[i][2]>>]

\* lines 20-37; diff_main raises ValueError("Null inputs") when a text is None
verify_quote(quote_text, original_source_text) ==
    IF compute_hash(quote_text) = compute_hash(original_source_text)
    THEN [raised |-> FALSE, match |-> TRUE, diff |-> Unset]
    ELSE IF ~original_source_text.set \/ ~quote_text.set
    THEN [raised |-> TRUE, match |-> FALSE, diff |-> Unset]
    ELSE [raised |-> FALSE, match |-> FALSE,
          diff |-> Res(diff_prettyHtml(diff_main(original_source_text.val, quote_text.val)))]

Texts ==
    { <<>>, <<" ">>, <<"a">>, <<"A">>, <<"b">>, <<" ", "a", " ">>, <<"a", "b">>,
      <<"a", " ", "b">>, <<" ", "A", " ", "\n", "b">> }

TextArgs == {Unset} \cup {Res(t) : t \in Texts}

VerificationInit ==
    /\ segmenter = "punkt"
    /\ inp \in { [quote |-> q, original |-> o] : q \in TextArgs, o \in TextArgs }
    /\ calls = <<>>
    /\ first = Unset
    /\ out = Unset
    /\ attributed = Unset

\* verifier.normalize_content(quote)
NormalizeCall ==
    /\ ~first.set
    /\ first' = Res(normalize_content(inp.quote))
    /\ UNCHANGED <<segmenter, inp, calls, out, attributed, pipeVars>>

\* verifier.verify_quote(quote, original)
VerifyCall ==
    /\ ~out.set
    /\ out' = Res(verify_quote(inp.quote, inp.original))
    /\ UNCHANGED <<segmenter, inp, calls, first, attributed, pipeVars>>

InitVerification == VerificationInit /\ PipeIdle

NextVerification == NormalizeCall \/ VerifyCall

SpecVerification == InitVerification /\ [][NextVerification]_vars

(***************************************************************************)
(* C15: normalize_content is total: for every text, empty and absent ones  *)
(* included, it returns a string that is lowercase, has every whitespace   *)
(* run collapsed to one space and has no leading or trailing whitespace;   *)
(* empty or absent input gives the empty string.                           *)
(***************************************************************************)
IsNormalForm(s) ==
    /\ \A i \in 1..Len(s) : LowerChar(s[i]) = s[i] /\ s[i] # "\n"
    /\ \A i \in 1..Len(s) : s[i] = " " => (i > 1 /\ i < Len(s) /\ s[i + 1] # " ")

\* the characters of a text that are not whitespace, lowercased
Letters(s) == LET NotSpace(c) == ~IsSpace(c) IN Lower(SelectSeq(s, NotSpace))

C15_NormalizeTotal ==
    first.set =>
        /\ IsNormalForm(first.val)
        /\ (~inp.quote.set \/ inp.quote.val = <<>>) => first.val = <<>>
        /\ inp.quote.set => Letters(first.val) = Letters(inp.quote.val)

C15_Witness ==
    /\ first.set
    /\ inp.quote = Res(<<" ", "A", " ", "\n", "b">>)
    /\ first.val = <<"a", " ", "b">>

(***************************************************************************)
(* C16: verify_quote(quote, original) returns (True, None) exactly when    *)
(* the normalized quote equals the normalized original; in particular for  *)
(* two texts that differ only in letter case or in the whitespace between  *)
(* and around their words; no diff is computed on that path.               *)
(***************************************************************************)
\* the words of a text, lowercased (absent text: no words)
WordsOf(text) == IF text.set THEN SplitWords(Lower(text.val), <<>>) ELSE <<>>

C16_MatchIffNormalizedEqual ==
    out.set =>
        /\ (~out.val.raised /\ out.val.match)
              <=> normalize_content(inp.quote) = normalize_content(inp.original)
        /\ WordsOf(inp.quote) = WordsOf(inp.original) => ~out.val.raised /\ out.val.match
        /\ (~out.val.raised /\ out.val.match) => ~out.val.diff.set

C16_Witness ==
    /\ out.set
    /\ inp.quote = Res(<<" ", "A", " ", "\n", "b">>)
    /\ inp.original = Res(<<"a", " ", "b">>)
    /\ out.val = [raised |-> FALSE, match |-> TRUE, diff |-> Unset]

(***************************************************************************)
(* C17: for every pair whose normalized forms differ, a pair with an empty *)
(* or absent side included, verify_quote returns (False, d) with d a       *)
(* non-empty diff between original and quote; it never raises.             *)
(***************************************************************************)
C17_MismatchGivesDiff ==
    (out.set /\ normalize_content(inp.quote) # normalize_content(inp.original)) =>
        /\ ~out.val.raised
        /\ ~out.val.match
        /\ out.val.diff.set
        /\ out.val.diff.val # <<>>

(***************************************************************************)
(* C18: on the fresh path of process_message the steps happen in the fixed *)
(* order create_message, atomize, attribute_atoms, classification,         *)
(* batch_create_transcripts, store_analysis, return success; 'success' is  *)
(* returned only after store_analysis completed, and classification is the *)
(* only step that may fail without stopping the sequence.                  *)
(***************************************************************************)
StepOrder ==
    <<"create_message", "atomize", "attribute_atoms", "classify_batch",
      "batch_create_transcripts", "store_analysis">>

\* the steps executed so far are the first steps of the fixed order
StepsInFixedOrder(p) ==
    /\ Len(trace[p]) <= Len(StepOrder)
    /\ \A i \in 1..Len(trace[p]) : trace[p][i].step = StepOrder[i]

\* a step that did not succeed is the last one, unless it is the classification
OnlyClassificationMayFail(p) ==
    \A i \in 1..Len(trace[p]) :
        (trace[p][i].outcome # "ok" /\ trace[p][i].step # "classify_batch") =>
            /\ i = Len(trace[p])
            /\ ret[p] # "success"

C18_FixedStepOrder ==
    \A p \in Tasks :
        /\ StepsInFixedOrder(p)
        /\ ret[p] = "success" => Did(p, "store_analysis")
        /\ OnlyClassificationMayFail(p)

\* the ordering part alone
StepsAlwaysInFixedOrder ==
    \A p \in Tasks : StepsInFixedOrder(p) /\ (ret[p] = "success" => Did(p, "store_analysis"))

(***************************************************************************)
(* C19: for any interleaving of concurrent process_message invocations on  *)
(* the same message_id, given that create_message is atomic per message_id *)
(* (one caller succeeds, the others get already-exists; no caller is       *)
(* turned away with 401/403), at most one invocation reaches Atomize and   *)
(* the transcript write, and all others return 'skipped'.                  *)
(***************************************************************************)
C19_OneInvocationPassesGate ==
    \A m \in MsgIds :
        runs[m].denied = 0 =>
            /\ runs[m].atomize <= 1
            /\ Len(db_transcripts[m]) <= 1
            /\ Cardinality({p \in Tasks : cur[p] = m /\ Did(p, "atomize")}) <= 1
            /\ \A p \in Tasks :
                  (cur[p] = m /\ Ended(p) /\ ~Did(p, "atomize")) =>
                      /\ ret[p] = "skipped"
                      /\ Len(trace[p]) = 1

\* two invocations on the same message_id, both called before the record
\* existed: one passes the gate and succeeds, the other is answered
\* already-exists and returns 'skipped'
C19_Witness ==
    /\ cur["t1"] \in MsgIds
    /\ cur["t1"] = cur["t2"]
    /\ runs[cur["t1"]].denied = 0
    /\ ~existed["t1"] /\ ~existed["t2"]
    /\ ret["t1"] = "success"
    /\ DidWith("t2", "create_message", "exists")
    /\ ret["t2"] = "skipped"

(***************************************************************************)
(* C20: for any interleaving of process_message invocations on distinct    *)
(* message_ids that share the pipeline and its Atomizer, the transcript    *)
(* batch written for each message is the one a solo run would write: only  *)
(* atoms of that message, with sequenceIndex 0..N-1 in document order.     *)
(***************************************************************************)
\* the sentences of a message's payload in document order
SoloContents(m) ==
    IF Payload(m).has_html
    THEN LET e == InDocOrder(SourcesOf(Payload(m).doc))
         IN IF e = <<>> THEN <<>> ELSE [i \in 1..Len(e) |-> e[i].content]
    ELSE LET ss == PlainSentences(Payload(m).plain)
         IN IF ss = <<>> THEN <<>> ELSE [i \in 1..Len(ss) |-> WithoutMarkers(ss[i])]

IsSoloBatch(batch, m, contents, solo) ==
    /\ Len(batch) = Len(contents)
    /\ \A i \in 1..Len(batch) :
          /\ batch[i].messageId = m
          /\ batch[i].sequenceIndex = i - 1
          /\ batch[i].content = contents[i]
          /\ batch[i].id = Sha256(IdString(m, i - 1))
          /\ [batch[i] EXCEPT !.tags = <<>>] = solo[i]

\* every batch sent or stored for message m is the solo batch
BatchesAreSolo(m, contents, solo) ==
    /\ \A p \in Tasks :
          (cur[p] = m /\ Did(p, "batch_create_transcripts"))
              => IsSoloBatch(sent[p], m, contents, solo)
    /\ \A i \in 1..Len(db_transcripts[m]) : IsSoloBatch(db_transcripts[m][i], m, contents, solo)

C20_BatchIsSoloBatch ==
    \A m \in MsgIds : BatchesAreSolo(m, SoloContents(m), UnlabelledBatch(m))

\* two invocations on distinct messages in flight together, both past the
\* transcript write
C20_Witness ==
    /\ cur["t1"] = "msg_001" /\ cur["t2"] = "msg_002"
    /\ pc["t1"] = "store" /\ pc["t2"] = "store"
    /\ Len(sent["t1"]) = 4 /\ Len(sent["t2"]) = 2
    /\ DidWith("t1", "batch_create_transcripts", "ok")
    /\ DidWith("t2", "batch_create_transcripts", "ok")

(***************************************************************************)
(* process_message abandoned before the transcript write: the coroutine is *)
(* cancelled at one of its await points (lines 168, 256, 258, 281;         *)
(* CancelledError is not an Exception, so line 285 does not catch it), or  *)
(* atomize raises because the segmenter resource is missing.               *)
(***************************************************************************)
\* cancellation or timeout of the caller, before batch_create_transcripts is called
Abandon(p) ==
    /\ pc[p] \in {"create", "atomize", "attribute", "classify", "save"}
    /\ pc' = [pc EXCEPT ![p] = "idle"]
    /\ ret' = [ret EXCEPT ![p] = "abandoned"]
    /\ trace' = [trace EXCEPT ![p] = Append(@, Step("cancelled", pc[p]))]
    /\ UNCHANGED <<db_messages, db_transcripts, db_analysis, cur, atoms, sent, runs,
                   existed, invocations, monitor, atomVars, ws>>

\* line 257 with the segmenter unavailable: nltk.sent_tokenize raises LookupError,
\* which leaves atomize and process_message
AtomizeFails(p) ==
    /\ pc[p] = "atomize"
    /\ runs' = [runs EXCEPT ![cur[p]].atomize = @ + 1]
    /\ pc' = [pc EXCEPT ![p] = "idle"]
    /\ ret' = [ret EXCEPT ![p] = "raised"]
    /\ trace' = [trace EXCEPT ![p] = Append(@, Step("atomize", "failed"))]
    /\ monitor' = emit(monitor, AtomizationStart)
    /\ UNCHANGED <<db_messages, db_transcripts, db_analysis, cur, atoms, sent, existed,
                   invocations, atomVars, ws>>

NextAbandon == Next \/ Abandon(Main) \/ AtomizeFails(Main)

SpecAbandon == Init /\ [][NextAbandon]_vars

(***************************************************************************)
(* C21: if process_message is abandoned (cancelled, timed out or stopped   *)
(* by an exception) before the call to batch_create_transcripts, the       *)
(* system of record is as it was before the invocation: the message has a  *)
(* record only if it had one when the invocation was called, so a later    *)
(* process_message for the message_id behaves as a first submission.       *)
(***************************************************************************)
AbandonedBeforeWrite(p) ==
    /\ pc[p] = "idle"
    /\ ret[p] \in {"abandoned", "raised"}
    /\ ~Did(p, "batch_create_transcripts")

C21_AbandonLeavesNoTrace ==
    \A p \in Tasks :
        AbandonedBeforeWrite(p) =>
            /\ cur[p] \in db_messages <=> existed[p]
            /\ ~existed[p] => db_transcripts[cur[p]] = <<>> /\ db_analysis[cur[p]] = <<>>

(***************************************************************************)
(* C22: after atomize returns, attribute_atoms and the classification step *)
(* leave the atom list's length and order and every atom's id, messageId,  *)
(* content, normalizedHash, sequenceIndex, quoteDepth and visualStyle      *)
(* unchanged; attribution writes only the attribution fields and           *)
(* classification only adds labels.                                        *)
(***************************************************************************)
\* the keys on which two atoms differ
ChangedKeys(a, b) ==
    {k \in DOMAIN a \cup DOMAIN b : k \notin DOMAIN a \/ k \notin DOMAIN b \/ a[k] # b[k]}

AttributionFields == {"attributedTo", "attributionMethod", "isAlteredQuote"}

\* the step changed nothing but the given fields, atom by atom
WritesOnly(before, after, fields) ==
    /\ Len(after) = Len(before)
    /\ \A i \in 1..Len(before) :
          /\ DOMAIN before[i] \subseteq DOMAIN after[i]
          /\ ChangedKeys(before[i], after[i]) \subseteq fields

PersistedFields ==
    {"id", "messageId", "content", "normalizedHash", "sequenceIndex", "quoteDepth",
     "visualStyle", "attributedTo", "attributionMethod"}

RecordsOfAtoms(batch, as) ==
    /\ Len(batch) = Len(as)
    /\ \A i \in 1..Len(as) :
          /\ DOMAIN batch[i] = PersistedFields \cup {"tags"}
          /\ \A k \in PersistedFields : batch[i][k] = as[i][k]
          /\ batch[i].tags = IF "labels" \in DOMAIN as[i] THEN as[i].labels ELSE <<>>
    /\ \A i, j \in 1..Len(batch) : i < j => batch[i].sequenceIndex < batch[j].sequenceIndex

RECURSIVE SumOver(_, _)
SumOver(f, S) ==
    IF S = {} THEN 0 ELSE LET x == CHOOSE y \in S : TRUE IN f[x] + SumOver(f, S \ {x})

CountsOfAtoms(summary, as) ==
    /\ DOMAIN summary = {as[i].attributedTo : i \in 1..Len(as)}
    /\ \A auth \in DOMAIN summary :
          summary[auth] = Cardinality({i \in 1..Len(as) : as[i].attributedTo = auth})
    /\ SumOver(summary, DOMAIN summary) = Len(as)

C23_BatchAndSummary ==
    \A p \in Tasks :
        /\ Did(p, "batch_create_transcripts") => RecordsOfAtoms(sent[p], atoms[p])
        /\ DidWith(p, "batch_create_transcripts", "ok") =>
              db_transcripts[cur[p]][Len(db_transcripts[cur[p]])] = sent[p]
        /\ DidWith(p, "store_analysis", "ok") =>
              CountsOfAtoms(db_analysis[cur[p]][Len(db_analysis[cur[p]])], atoms[p])

\* a labelled pass on the four-atom message, both writes accepted
C23_Witness ==
    \E p \in Tasks :
        /\ ret[p] = "success"
        /\ DidWith(p, "batch_create_transcripts", "ok")
        /\ DidWith(p, "store_analysis", "ok")
        /\ Len(sent[p]) = 4
        /\ sent[p][1].tags # <<>>
        /\ sent[p][2].tags = <<>>
        /\ Cardinality(DOMAIN db_analysis[cur[p]][Len(db_analysis[cur[p]])]) = 2

(***************************************************************************)
(* The monitor's counters against the invocations.                         *)
(***************************************************************************)
NoInvocationInProgress == \A p \in Tasks : pc[p] = "idle"

Successes == runs["msg_001"].succeeded + runs["msg_002"].succeeded

\* C30: whenever no process_message invocation is in progress the monitor's
\* in_process is 0, whichever way the invocations ended and however they
\* interleaved, and completed is the number of invocations that ended in success
C30_MonitorTracksInvocations ==
    /\ NoInvocationInProgress => monitor.stats.in_process = 0
    /\ NoInvocationInProgress => monitor.stats.completed = Successes

(***************************************************************************)
(* api.py, /ws/monitor: clients connecting to the monitor while messages   *)
(* are broadcast.  websocket.send_json hands its message to the connection *)
(* when it is called; the coroutines interleave at accept(), at            *)
(* receive_text() and between the sends of one broadcast.                  *)
(***************************************************************************)
MaxBroadcasts == 2

procVars == <<db_messages, db_transcripts, db_analysis, pc, cur, atoms, ret, trace, sent,
              runs, existed, invocations>>

BroadcastMessages == {IngestStart, ProcessMessageStart, PipelineComplete}

InitStats(data) == [type |-> "INIT_STATS", data |-> data]
Pong == [type |-> "pong"]

\* line 184: await websocket.accept()
Accept(c) ==
    /\ ws.phase[c] = "new"
    /\ ws' = [ws EXCEPT !.phase[c] = "accepted"]
    /\ UNCHANGED <<monitor, procVars, atomVars>>

\* lines 185-196: the connection is appended and INIT_STATS is sent; a failed send
\* is printed and connect returns all the same
Register(c) ==
    /\ ws.phase[c] = "accepted"
    /\ monitor' = [monitor EXCEPT !.active_connections = Append(@, c)]
    /\ ws' = [ws EXCEPT !.phase[c] = "open",
                        !.seen[c] = Len(ws.history),
                        !.received[c] = IF c \notin ws.closed
                                        THEN Append(@, InitStats(safe_stats(monitor.stats)))
                                        ELSE @]
    /\ UNCHANGED <<procVars, atomVars>>

\* lines 254-258: a ping of the client is answered with pong (one ping a client)
Ping(c) ==
    /\ ws.phase[c] = "open"
    /\ c \notin ws.closed
    /\ \A i \in 1..Len(ws.received[c]) : ws.received[c][i] # Pong
    /\ ws' = [ws EXCEPT !.received[c] = Append(@, Pong)]
    /\ UNCHANGED <<monitor, procVars, atomVars>>

\* the client closes its end of the connection
ClientClose(c) ==
    /\ ws.phase[c] \in {"accepted", "open"}
    /\ c \notin ws.closed
    /\ ws' = [ws EXCEPT !.closed = @ \cup {c}]
    /\ UNCHANGED <<monitor, procVars, atomVars>>

\* lines 259-265: receive_text raises WebSocketDisconnect, the endpoint disconnects
EndpointDisconnect(c) ==
    /\ ws.phase[c] = "open"
    /\ c \in ws.closed
    /\ monitor' = disconnect(monitor, c)
    /\ ws' = [ws EXCEPT !.phase[c] = "done"]
    /\ UNCHANGED <<procVars, atomVars>>

\* lines 203-225: the stats are updated and the list of connections is copied
BroadcastBegin(message) ==
    /\ ~ws.sending.busy
    /\ Len(ws.history) < MaxBroadcasts
    /\ monitor' = [monitor EXCEPT !.stats = update_stats(@, message)]
    /\ ws' = [ws EXCEPT !.history = Append(@, message),
                        !.sending = [busy |-> TRUE, message |-> message,
                                     to |-> monitor.active_connections]]
    /\ UNCHANGED <<procVars, atomVars>>

\* lines 226-237: one send of the loop; a closed connection raises, and is
\* disconnected when what it raises is a RuntimeError
BroadcastSend ==
    /\ ws.sending.busy
    /\ ws.sending.to # <<>>
    /\ LET c == Head(ws.sending.to) IN
       IF c \in ws.closed
       THEN /\ \E raised \in {"RuntimeError", "Exception"} :
                 monitor' = IF raised = "RuntimeError" THEN disconnect(monitor, c)
                            ELSE monitor
            /\ ws' = [ws EXCEPT !.sending.to = Tail(@)]
       ELSE /\ ws' = [ws EXCEPT !.sending.to = Tail(@),
                                 !.received[c] = Append(@, ws.sending.message)]
            /\ UNCHANGED monitor
    /\ UNCHANGED <<procVars, atomVars>>

\* the loop of lines 226-237 is over
BroadcastEnd ==
    /\ ws.sending.busy
    /\ ws.sending.to = <<>>
    /\ ws' = [ws EXCEPT !.sending = NoSend]
    /\ UNCHANGED <<monitor, procVars, atomVars>>

NextMonitor ==
    \/ \E c \in Clients : Accept(c)
    \/ \E c \in Clients : Register(c)
    \/ \E c \in Clients : Ping(c)
    \/ \E c \in Clients : ClientClose(c)
    \/ \E c \in Clients : EndpointDisconnect(c)
    \/ \E message \in BroadcastMessages : BroadcastBegin(message)
    \/ BroadcastSend
    \/ BroadcastEnd

SpecMonitor == Init /\ [][NextMonitor]_vars

\* the stats after the messages of h, from a new monitor
RECURSIVE StatsAfter(_)
StatsAfter(h) ==
    IF h = <<>> THEN NewMonitor.stats
    ELSE update_stats(StatsAfter(SubSeq(h, 1, Len(h) - 1)), h[Len(h)])

\* what a client received apart from INIT_STATS and pong
BroadcastsOf(received) == SelectSeq(received, LAMBDA x : x.type \notin {"INIT_STATS", "pong"})

IsPrefix(a, b) == Len(a) <= Len(b) /\ a = SubSeq(b, 1, Len(a))

\* C24: the first message a connecting client receives is INIT_STATS, its data
\* are the stats after every broadcast processed before the client connected, and
\* from then until it disconnects the client receives every broadcast, in order
C24_InitStatsThenBroadcasts ==
    \A c \in Clients :
       LET later == SubSeq(ws.history, ws.seen[c] + 1, Len(ws.history)) IN
       /\ ws.received[c] # <<>> =>
             ws.received[c][1] =
                InitStats(StatsAfter(SubSeq(ws.history, 1, ws.seen[c])))
       /\ \A i \in 2..Len(ws.received[c]) : ws.received[c][i].type # "INIT_STATS"
       /\ IsPrefix(BroadcastsOf(ws.received[c]), later)
       /\ (ws.phase[c] = "open" /\ c \notin ws.closed /\ ~ws.sending.busy) =>
             BroadcastsOf(ws.received[c]) = later

\* a client that connected after a broadcast and then received another one
C24_Witness ==
    \E c \in Clients :
       /\ ws.seen[c] >= 1
       /\ Len(ws.received[c]) >= 2
       /\ ws.received[c][1].type = "INIT_STATS"
       /\ ws.received[c][1].data # NewMonitor.stats
       /\ ws.received[c][2] \in BroadcastMessages
       /\ c \notin ws.closed

(***************************************************************************)
(* routers/container.py: the container-control endpoints behind the        *)
(* get_cloudflare_client dependency.  An environment variable is absent    *)
(* (None), empty or set; a detail is the sequence of its words.            *)
(***************************************************************************)
MaxRequests == 2

EnvValues == {None, "", "set"}

Falsy(v) == v \in {None, ""}

\* a or b
OrElse(a, b) == IF Falsy(a) THEN b ELSE a

\* a configuration that still reads the generic CLOUDFLARE_API_TOKEN
get_cloudflare_config_with_generic_token(env) ==
    [accountId |-> env.CLOUDFLARE_ACCOUNT_ID,
     apiToken |-> env.CLOUDFLARE_API_TOKEN,
     workerScriptName |-> "acre-forensics-backend",
     workerAdminToken |-> env.CLOUDFLARE_WORKER_ADMIN_TOKEN]

\* cloudflare_ops.py lines 10-109, the keys the dependency reads
get_cloudflare_config(env) ==
    [accountId |-> env.CLOUDFLARE_ACCOUNT_ID,
     apiToken |-> None,
     workerScriptName |-> "acre-forensics-backend",
     workerAdminToken |-> env.CLOUDFLARE_WORKER_ADMIN_TOKEN]

HttpError(status_code, detail) == [raised |-> TRUE, status_code |-> status_code, detail |-> detail]

MissingDetail ==
    <<"Missing", "CLOUDFLARE_API_TOKEN", "or", "CLOUDFLARE_ACCOUNT_ID", "environment",
      "variables">>

\* routers/container.py lines 75-94
get_cloudflare_client(env) ==
    LET config == get_cloudflare_config(env)
        api_token == OrElse(config.workerAdminToken, config.apiToken)
        account_id == config.accountId
    IN IF Falsy(api_token) \/ Falsy(account_id)
       THEN HttpError(500, MissingDetail)
       ELSE [raised |-> FALSE, api_token |-> api_token, account_id |-> account_id,
             script_name |-> OrElse(config.workerScriptName, "")]

ContainerEndpoints == {"status", "logs", "power_on", "power_off", "restart"}

\* how Cloudflare answers one call of the client: success, success: false,
\* HTTP 404, another HTTP error
CloudflareAnswers == {"success", "unsuccessful", "404", "403"}

Answer(endpoint, status_code, detail, ops) ==
    [endpoint |-> endpoint, status_code |-> status_code, detail |-> detail, ops |-> ops]

\* lines 102-238: the body of an endpoint, given the client and Cloudflare's answer
EndpointBody(endpoint, a) ==
    IF endpoint = "status"
    THEN IF a = "success" THEN Answer(endpoint, 200, <<"active">>, <<"get_script_status">>)
         ELSE IF a = "unsuccessful"
         THEN Answer(endpoint, 200, <<"error">>, <<"get_script_status">>)
         ELSE IF a = "404" THEN Answer(endpoint, 200, <<"inactive">>, <<"get_script_status">>)
         ELSE Answer(endpoint, 403, <<"Cloudflare", "API", "error">>, <<"get_script_status">>)
    ELSE IF endpoint = "logs"
    THEN Answer(endpoint, 200, <<"logs">>, <<"wrangler_tail">>)
    ELSE IF endpoint = "power_on"
    THEN IF a = "success" THEN Answer(endpoint, 200, <<"on">>, <<"deploy_script">>)
         ELSE IF a = "unsuccessful"
         THEN Answer(endpoint, 500, <<"Deployment", "failed">>, <<"deploy_script">>)
         ELSE Answer(endpoint, 500, <<"Failed", "to", "deploy", "Worker">>, <<"deploy_script">>)
    ELSE IF endpoint = "power_off"
    THEN IF a = "success" THEN Answer(endpoint, 200, <<"off">>, <<"delete_script">>)
         ELSE IF a = "unsuccessful"
         THEN Answer(endpoint, 500, <<"Deletion", "failed">>, <<"delete_script">>)
         ELSE Answer(endpoint, 500, <<"Failed", "to", "delete", "Worker">>, <<"delete_script">>)
    ELSE IF a = "success"
         THEN Answer(endpoint, 200, <<"restart">>, <<"get_script_status", "deploy_script">>)
         ELSE IF a = "unsuccessful"
         THEN Answer(endpoint, 500, <<"Restart", "failed">>,
                     <<"get_script_status", "deploy_script">>)
         ELSE Answer(endpoint, 500, <<"Failed", "to", "restart", "Worker">>,
                     <<"get_script_status">>)

\* Depends(get_cloudflare_client): the body runs only when the dependency returned
ContainerEndpoint(endpoint, env, a) ==
    LET client == get_cloudflare_client(env) IN
    IF client.raised THEN Answer(endpoint, client.status_code, client.detail, <<>>)
    ELSE EndpointBody(endpoint, a)

ContainerInit ==
    /\ segmenter = "punkt"
    /\ inp \in [CLOUDFLARE_WORKER_ADMIN_TOKEN : EnvValues, CLOUDFLARE_ACCOUNT_ID : EnvValues,
                 CLOUDFLARE_API_TOKEN : {None, "set"}]
    /\ calls = <<>>
    /\ first = Unset
    /\ out = <<>>
    /\ attributed = Unset

\* one request to /api/container/...
ContainerRequest(endpoint) ==
    /\ Len(out) < MaxRequests
    /\ \E a \in CloudflareAnswers :
          LET r == ContainerEndpoint(endpoint, inp, a) IN
          /\ out' = Append(out, r)
          /\ calls' = calls \o r.ops
    /\ UNCHANGED <<segmenter, inp, first, attributed, pipeVars>>

InitContainer == ContainerInit /\ PipeIdle

NextContainer == \E endpoint \in ContainerEndpoints : ContainerRequest(endpoint)

SpecContainer == InitContainer /\ [][NextContainer]_vars

ConfigIncomplete(env) ==
    \/ env.CLOUDFLARE_WORKER_ADMIN_TOKEN \in {None, ""}
    \/ env.CLOUDFLARE_ACCOUNT_ID \in {None, ""}

HasWord(detail, word) == \E i \in 1..Len(detail) : detail[i] = word

\* C25: with the worker admin token or the account id absent from the
\* configuration, every container-control endpoint answers HTTP 500 with a
\* detail containing 'Missing', and no Cloudflare call, deployment or deletion
\* is made
C25_MissingConfigAnswers500 ==
    ConfigIncomplete(inp) =>
       /\ calls = <<>>
       /\ \A i \in 1..Len(out) :
             /\ out[i].status_code = 500
             /\ HasWord(out[i].detail, "Missing")
             /\ out[i].ops = <<>>

\* two requests answered with the generic token set and the admin token absent
C25_Witness ==
    /\ inp.CLOUDFLARE_WORKER_ADMIN_TOKEN = None
    /\ inp.CLOUDFLARE_API_TOKEN = "set"
    /\ inp.CLOUDFLARE_ACCOUNT_ID = "set"
    /\ Len(out) = MaxRequests
    /\ out[1].endpoint = "power_off"
    /\ out[2].endpoint = "restart"

(***************************************************************************)
(* routers/commands.py: /api/commands/exec and /api/commands/exec-python.  *)
(* The captured output of a process is a byte string that is valid UTF-8   *)
(* or not; a launch ends in a running process or in an OSError.            *)
(***************************************************************************)
MaxExecs == 2

ExecTexts == {"", "echo"}

Launches == {"started", "FileNotFoundError", "PermissionError"}

Bytes(valid, text) == [valid |-> valid, text |-> text]

ProcessResults ==
    [returncode : {0, 3},
     stdout : {Bytes(TRUE, ""), Bytes(TRUE, "hello"), Bytes(FALSE, "?")},
     stderr : {Bytes(TRUE, "")}]

ExecResponse(stdout, stderr, exitCode) ==
    [status_code |-> 200, stdout |-> stdout, stderr |-> stderr, exitCode |-> exitCode]

\* what reaches the except clauses of the handler: nothing, or the exception raised
\* within the try block
TryBlock(text, launch, result) ==
    IF text = "" THEN [raised |-> "HTTPException", value |-> None]
    ELSE IF launch # "started" THEN [raised |-> launch, value |-> None]
    ELSE IF ~result.stdout.valid \/ ~result.stderr.valid
    THEN [raised |-> "UnicodeDecodeError", value |-> None]
    ELSE [raised |-> None,
          value |-> ExecResponse(result.stdout.text, result.stderr.text, result.returncode)]

\* lines 25-52
exec_command(text, launch, result) ==
    LET t == TryBlock(text, launch, result) IN
    IF t.raised = None THEN t.value
    ELSE IF t.raised = "FileNotFoundError"
    THEN ExecResponse("", "Command not found", 127)
    ELSE ExecResponse("", t.raised, 1)

\* lines 55-80
exec_python(text, launch, result) ==
    LET t == TryBlock(text, launch, result) IN
    IF t.raised = None THEN t.value
    ELSE ExecResponse("", t.raised, 1)

ExecInit ==
    /\ segmenter = "punkt"
    /\ inp = None
    /\ calls = <<>>
    /\ first = Unset
    /\ out = <<>>
    /\ attributed = Unset

Exchange(endpoint, text, launch, result, response) ==
    [endpoint |-> endpoint, text |-> text, launch |-> launch, result |-> result,
     response |-> response]

\* POST /api/commands/exec
ExecCommandRequest ==
    /\ Len(out) < MaxExecs
    /\ \E text \in ExecTexts, launch \in Launches, result \in ProcessResults :
          out' = Append(out, Exchange("exec", text, launch, result,
                                      exec_command(text, launch, result)))
    /\ UNCHANGED <<segmenter, inp, calls, first, attributed, pipeVars>>

\* POST /api/commands/exec-python
ExecPythonRequest ==
    /\ Len(out) < MaxExecs
    /\ \E text \in ExecTexts, launch \in Launches, result \in ProcessResults :
          out' = Append(out, Exchange("exec-python", text, launch, result,
                                      exec_python(text, launch, result)))
    /\ UNCHANGED <<segmenter, inp, calls, first, attributed, pipeVars>>

InitExec == ExecInit /\ PipeIdle

NextExec == ExecCommandRequest \/ ExecPythonRequest

SpecExec == InitExec /\ [][NextExec]_vars

\* C26: an exec endpoint answers an empty command or code with HTTP 400, and
\* everything else with a result: the exit code and the captured output of the
\* process that ran, exitCode 127 for a command that cannot be found, exitCode 1
\* for any other launch failure
C26_ExecAnswersWithResult ==
    \A i \in 1..Len(out) :
       LET x == out[i] IN
       IF x.text = "" THEN x.response.status_code = 400
       ELSE /\ x.response.status_code = 200
            /\ (x.launch = "started" /\ x.result.stdout.valid) =>
                  /\ x.response.exitCode = x.result.returncode
                  /\ x.response.stdout = x.result.stdout.text
                  /\ x.response.stderr = x.result.stderr.text
            /\ (x.launch = "FileNotFoundError" /\ x.endpoint = "exec") =>
                  x.response.exitCode = 127
            /\ (x.launch = "PermissionError") => x.response.exitCode = 1

(***************************************************************************)
(* What the statuses of process_message say about the system of record.    *)
(***************************************************************************)
\* C27: process_message returns 'skipped' for a message only when the transcripts
\* and the analysis summary of that message have been persisted by an earlier pass
C27_SkippedMeansPersisted ==
    \A p \in Tasks :
       ret[p] = "skipped" =>
          /\ db_transcripts[cur[p]] # <<>>
          /\ db_analysis[cur[p]] # <<>>

\* C28: process_message returns 'success' only when the collaborator accepted the
\* three writes of the pass: create_message, batch_create_transcripts, store_analysis
C28_SuccessMeansAccepted ==
    \A p \in Tasks :
       ret[p] = "success" =>
          /\ DidWith(p, "create_message", "ok")
          /\ DidWith(p, "batch_create_transcripts", "ok")
          /\ DidWith(p, "store_analysis", "ok")

\* C29: the normalizedHash of every atom atomize emits, on either path, is
\* VerificationEngine.compute_hash of the atom's content
C29_HashIsComputeHash ==
    out.set =>
       \A i \in 1..Len(out.val) :
          out.val[i].normalizedHash = compute_hash(Res(out.val[i].content))
====
